---- MODULE Spec2Model ----
(***************************************************************************)
(* Persistent cons/nil list of src/persistent.rs.                          *)
(*                                                                         *)
(* The heap holds the Rc<Node<T>> boxes: each box is a node (Nil or        *)
(* Cons(value, rest)) together with its strong reference count.  A List<T> *)
(* handle is the id of the box it points to.  The caller owns a few handle *)
(* variables (vars) and may hold one borrowed iteration cursor.  Every     *)
(* library call is one action; `last` is the call that has just returned   *)
(* together with the values it returned.                                   *)
(***************************************************************************)
EXTENDS Integers, Sequences, FiniteSets

\* ---- bounds of the model ------------------------------------------------
MaxNodes == 6
MaxVars == 2
MaxVal == 2
MaxSeqLen == 2
MaxLen == 2

VARIABLES heap, vars, cursor, last
vs == <<heap, vars, cursor, last>>

VarIds == 1..MaxVars
Values == 1..MaxVal
NoHandle == 0

\* ---- Node<T> and the Rc box around it -----------------------------------
\* heap is the sequence of the live boxes, oldest first: a box is named by
\* its rank among the live boxes, since the program cannot observe addresses.
FreeNode == [tag |-> "Free", val |-> 0, rest |-> NoHandle, rc |-> 0]
Nil == [tag |-> "Nil", val |-> 0, rest |-> NoHandle]
Cons(x, xs) == [tag |-> "Cons", val |-> x, rest |-> xs]

NodeIds(h) == 1..Len(h)

\* Rc::new(node): a fresh box holding the node, with one owner.
RcNew(h, node) ==
  [heap |-> Append(h, [tag |-> node.tag, val |-> node.val,
                       rest |-> node.rest, rc |-> 1]),
   node |-> Len(h) + 1]

\* List::new(node)
new(h, node) == RcNew(h, node)

\* List::nil()
nil(h) == new(h, Nil)

\* Mutant of cons: the new node takes a further share of the tail box.
cons_bumps(h, x, xs) == new([h EXCEPT ![xs].rc = @ + 1], Cons(x, xs))

\* List::cons(x, xs): xs is taken by value, the handle moves into the node.
cons(h, x, xs) == new(h, Cons(x, xs))

\* Clone of a List handle: Rc::clone, one more owner of the same box.
clone(h, n) == [heap |-> [h EXCEPT ![n].rc = @ + 1], node |-> n]

\* Mutant of drop: the last owner frees the box and forgets the handle in it.
drop_shallow(h, n) ==
  IF h[n].rc > 1 THEN [h EXCEPT ![n].rc = @ - 1] ELSE [h EXCEPT ![n] = FreeNode]

\* Drop of a List handle: Rc drop; the last owner drops the node, and a
\* Cons node drops the handle it stores.
RECURSIVE drop(_, _)
drop(h, n) ==
  IF h[n].rc > 1 THEN [h EXCEPT ![n].rc = @ - 1]
  ELSE LET freed == [h EXCEPT ![n] = FreeNode]
       IN IF h[n].tag = "Cons" THEN drop(freed, h[n].rest) ELSE freed

\* The released boxes leave the heap; the boxes that stay keep their order.
Released(h) == {n \in NodeIds(h) : h[n].tag = "Free"}
Rank(h, n) ==
  IF n = NoHandle \/ n \in Released(h) THEN NoHandle
  ELSE n - Cardinality({m \in Released(h) : m < n})
Compact(h) ==
  LET kept == NodeIds(h) \ Released(h)
      at(k) == CHOOSE n \in kept : Rank(h, n) = k
  IN [k \in 1..Cardinality(kept) |->
        [h[at(k)] EXCEPT !.rest = Rank(h, h[at(k)].rest)]]

\* Mutant of next: the list is advanced in place instead of the cursor.
next_pop(h, cur) ==
  IF h[cur].tag = "Nil"
  THEN [heap |-> h, cur |-> cur, some |-> FALSE, item |-> 0]
  ELSE [heap |-> [h EXCEPT ![cur] = [h[h[cur].rest] EXCEPT !.rc = h[cur].rc]],
        cur |-> cur, some |-> TRUE, item |-> h[cur].val]

\* Iterator::next for &List<T>: the cursor moves, the list does not.
next(h, cur) ==
  IF h[cur].tag = "Nil"
  THEN [heap |-> h, cur |-> cur, some |-> FALSE, item |-> 0]
  ELSE [heap |-> h, cur |-> h[cur].rest, some |-> TRUE, item |-> h[cur].val]

\* List::iter
iter(n) == n

\* Mutant of reverse_impl: the walk stops one node early.
RECURSIVE reverse_impl_stopsEarly(_, _, _, _)
reverse_impl_stopsEarly(h, self, acc, depth) ==
  IF h[self].tag = "Nil" \/ h[h[self].rest].tag = "Nil"
  THEN [heap |-> h, node |-> acc, depth |-> depth]
  ELSE LET c == cons(h, h[self].val, acc)
       IN reverse_impl_stopsEarly(c.heap, h[self].rest, c.node, depth + 1)

\* List::reverse_impl(&self, acc): one call per node of self; depth is the
\* number of reverse_impl calls that have been entered and not yet returned.
RECURSIVE reverse_impl(_, _, _, _)
reverse_impl(h, self, acc, depth) ==
  IF h[self].tag = "Nil"
  THEN [heap |-> h, node |-> acc, depth |-> depth]
  ELSE LET c == cons(h, h[self].val, acc)
       IN reverse_impl(c.heap, h[self].rest, c.node, depth + 1)

\* Mutant of reverse: the accumulator starts as the list itself.
reverse_ontoSelf(h, self) ==
  LET c == clone(h, self) IN reverse_impl(c.heap, self, c.node, 1)

\* List::reverse(&self)
reverse(h, self) ==
  LET e == nil(h) IN reverse_impl(e.heap, self, e.node, 1)

\* Container::len: the for loop over self.iter(); every call of next has
\* returned before the following one is made.
RECURSIVE len_loop(_, _, _)
len_loop(h, cur, result) ==
  LET r == next(h, cur)
  IN IF r.some THEN len_loop(r.heap, r.cur, result + 1)
     ELSE [heap |-> r.heap, n |-> result, depth |-> 1]

\* Mutant of len: the counter starts at one.
len_fromOne(h, self) == len_loop(h, iter(self), 1)

len(h, self) == len_loop(h, iter(self), 0)

\* Container::is_empty
is_empty(h, self) == h[self].tag = "Nil"

\* Mutant of from_iterator: a loop that conses each item onto an accumulator.
from_iterator_loop(h, it, depth) ==
  LET acc[i \in 0..Len(it)] ==
        IF i = 0 THEN nil(h) ELSE cons(acc[i - 1].heap, it[i], acc[i - 1].node)
  IN [heap |-> acc[Len(it)].heap, node |-> acc[Len(it)].node, depth |-> depth]

\* FromIterator::from_iterator(iter): the recursive call is made before the
\* cons of this call, so every call stays pending until the input is used up.
RECURSIVE from_iterator(_, _, _)
from_iterator(h, it, depth) ==
  IF it = <<>>
  THEN LET e == nil(h) IN [heap |-> e.heap, node |-> e.node, depth |-> depth]
  ELSE LET r == from_iterator(h, Tail(it), depth + 1)
           c == cons(r.heap, Head(it), r.node)
       IN [heap |-> c.heap, node |-> c.node, depth |-> r.depth]

\* ---- #[deriving(Eq, Ord)] on List and Node; Rc compares the contents ----
VariantIndex(tag) == IF tag = "Nil" THEN 0 ELSE 1

\* Mutant of eq: the pointers are compared, not the contents.
eq_pointer(h, a, b) == a = b

RECURSIVE eq(_, _, _)
eq(h, a, b) ==
  IF h[a].tag # h[b].tag THEN FALSE
  ELSE IF h[a].tag = "Nil" THEN TRUE
  ELSE h[a].val = h[b].val /\ eq(h, h[a].rest, h[b].rest)

RECURSIVE ne(_, _, _)
ne(h, a, b) ==
  IF h[a].tag # h[b].tag THEN TRUE
  ELSE IF h[a].tag = "Nil" THEN FALSE
  ELSE h[a].val # h[b].val \/ ne(h, h[a].rest, h[b].rest)

\* Mutant of lt: the tails decide even when the heads are in the other order.
RECURSIVE lt_tailsDecide(_, _, _)
lt_tailsDecide(h, a, b) ==
  IF h[a].tag # h[b].tag THEN VariantIndex(h[a].tag) < VariantIndex(h[b].tag)
  ELSE IF h[a].tag = "Nil" THEN FALSE
  ELSE \/ h[a].val < h[b].val
       \/ lt_tailsDecide(h, h[a].rest, h[b].rest)

RECURSIVE lt(_, _, _)
lt(h, a, b) ==
  IF h[a].tag # h[b].tag THEN VariantIndex(h[a].tag) < VariantIndex(h[b].tag)
  ELSE IF h[a].tag = "Nil" THEN FALSE
  ELSE \/ h[a].val < h[b].val
       \/ /\ ~(h[b].val < h[a].val)
          /\ \/ lt(h, h[a].rest, h[b].rest)
             \/ (~lt(h, h[b].rest, h[a].rest) /\ FALSE)

RECURSIVE gt(_, _, _)
gt(h, a, b) ==
  IF h[a].tag # h[b].tag THEN VariantIndex(h[a].tag) > VariantIndex(h[b].tag)
  ELSE IF h[a].tag = "Nil" THEN FALSE
  ELSE \/ h[a].val > h[b].val
       \/ /\ ~(h[b].val > h[a].val)
          /\ \/ gt(h, h[a].rest, h[b].rest)
             \/ (~gt(h, h[b].rest, h[a].rest) /\ FALSE)

\* ---- what a handle denotes ----------------------------------------------
\* The values of the Cons nodes from a handle's node to the terminal Nil.
RECURSIVE Elems(_, _)
Elems(h, n) ==
  IF h[n].tag = "Cons" THEN <<h[n].val>> \o Elems(h, h[n].rest) ELSE <<>>

\* The nodes from a handle's node to the terminal Nil.
RECURSIVE Chain(_, _)
Chain(h, n) ==
  IF h[n].tag = "Cons" THEN {n} \cup Chain(h, h[n].rest) ELSE {n}

LiveVars(v) == {i \in VarIds : v[i] # NoHandle}
Reachable(h, v) == UNION {Chain(h, v[i]) : i \in LiveVars(v)}
\* MaxNodes bounds the boxes that are live between two calls.
Room(k) == Len(heap) + k <= MaxNodes

\* ---- the caller ---------------------------------------------------------
\* A let binds the next unused variable of the caller.
Fresh(d) == vars[d] = NoHandle /\ \A i \in VarIds : i < d => vars[i] # NoHandle
\* No for loop is running.
Idle == cursor.root = 0
\* A running loop borrows the list it iterates: the borrow checker rejects a
\* move or a drop of that variable until the loop has ended.
Borrowed(v) == cursor.root = v
\* The cursor of a running loop after the released boxes have left heap h.
Moved(h) == [cursor EXCEPT !.node = Rank(h, @)]

NoCursor == [root |-> 0, node |-> NoHandle, count |-> 0]
Obs(op, src, dst, n, depth, flags, it) ==
  [op |-> op, src |-> src, dst |-> dst, n |-> n, depth |-> depth,
   flags |-> flags, it |-> it]
Inputs == UNION {[1..k -> Values] : k \in 0..MaxSeqLen}

Init ==
  /\ heap = <<>>
  /\ vars = [i \in VarIds |-> NoHandle]
  /\ cursor = NoCursor
  /\ last = Obs("init", 0, 0, 0, 0, {}, <<>>)

\* let d = List::nil();
CallNil(d) ==
  /\ Fresh(d)
  /\ Room(1)
  /\ LET r == nil(heap)
     IN /\ heap' = r.heap
        /\ vars' = [vars EXCEPT ![d] = r.node]
  /\ last' = Obs("nil", 0, d, 0, 0, {}, <<>>)
  /\ UNCHANGED cursor

\* let d = List::cons(x, s);   s is moved into the call; d is the first
\* variable of the caller that is unused once s has been moved out
CallCons(x, s, d) ==
  /\ vars[s] # NoHandle
  /\ ~Borrowed(s)
  /\ d = s \/ vars[d] = NoHandle
  /\ \A i \in VarIds : i < d => (i # s /\ vars[i] # NoHandle)
  /\ Len(Elems(heap, vars[s])) < MaxLen
  /\ Room(1)
  /\ LET r == cons(heap, x, vars[s])
     IN /\ heap' = r.heap
        /\ vars' = [[vars EXCEPT ![s] = NoHandle] EXCEPT ![d] = r.node]
  /\ last' = Obs("cons", s, d, x, 0, {}, <<>>)
  /\ UNCHANGED cursor

\* let d = s.clone();
CallClone(s, d) ==
  /\ vars[s] # NoHandle
  /\ Fresh(d)
  /\ LET r == clone(heap, vars[s])
     IN /\ heap' = r.heap
        /\ vars' = [vars EXCEPT ![d] = r.node]
  /\ last' = Obs("clone", s, d, 0, 0, {}, <<>>)
  /\ UNCHANGED cursor

\* v goes out of scope
CallDrop(v) ==
  /\ vars[v] # NoHandle
  /\ ~Borrowed(v)
  /\ LET h == drop(heap, vars[v])
     IN /\ heap' = Compact(h)
        /\ vars' = [i \in VarIds |-> IF i = v THEN NoHandle ELSE Rank(h, vars[i])]
        /\ last' = Obs("drop", v, 0, Cardinality(Released(h)), 0, {}, <<>>)
        /\ cursor' = Moved(h)

\* let d = s.reverse();
CallReverse(s, d) ==
  /\ vars[s] # NoHandle
  /\ Fresh(d)
  /\ Room(Len(Elems(heap, vars[s])) + 1)
  /\ LET r == reverse(heap, vars[s])
     IN /\ heap' = r.heap
        /\ vars' = [vars EXCEPT ![d] = r.node]
        /\ last' = Obs("reverse", s, d, 0, r.depth, {}, <<>>)
  /\ UNCHANGED cursor

\* let d = s.reverse().reverse();   the inner result is a temporary
CallReverseReverse(s, d) ==
  /\ vars[s] # NoHandle
  /\ Fresh(d)
  /\ Room(Len(Elems(heap, vars[s])) + 1)
  /\ LET r1 == reverse(heap, vars[s])
         r2 == reverse(r1.heap, r1.node)
         h == drop(r2.heap, r1.node)
     IN /\ heap' = Compact(h)
        /\ vars' = [i \in VarIds |-> IF i = d THEN Rank(h, r2.node) ELSE Rank(h, vars[i])]
        /\ last' = Obs("reverse_reverse", s, d, 0, r2.depth, {}, <<>>)
        /\ cursor' = Moved(h)

\* let d : List<int> = it.move_iter().collect();
CallFromIterator(it, d) ==
  /\ Fresh(d)
  /\ Room(Len(it) + 1)
  /\ LET r == from_iterator(heap, it, 1)
     IN /\ heap' = r.heap
        /\ vars' = [vars EXCEPT ![d] = r.node]
        /\ last' = Obs("from_iterator", 0, d, 0, r.depth, {}, it)
  /\ UNCHANGED cursor

\* v.len()
CallLen(v) ==
  /\ vars[v] # NoHandle
  /\ LET r == len(heap, vars[v])
     IN /\ heap' = r.heap
        /\ last' = Obs("len", v, 0, r.n, r.depth, {}, <<>>)
  /\ UNCHANGED <<vars, cursor>>

\* v.is_empty()
CallIsEmpty(v) ==
  /\ vars[v] # NoHandle
  /\ last' = Obs("is_empty", v, 0, 0, 0,
                 IF is_empty(heap, vars[v]) THEN {"true"} ELSE {}, <<>>)
  /\ UNCHANGED <<heap, vars, cursor>>

\* a == b, a != b, a < b, a > b
CallCompare(a, b) ==
  /\ vars[a] # NoHandle
  /\ vars[b] # NoHandle
  /\ last' = Obs("compare", a, 0, b, 0,
                 (IF eq(heap, vars[a], vars[b]) THEN {"eq"} ELSE {}) \cup
                 (IF ne(heap, vars[a], vars[b]) THEN {"ne"} ELSE {}) \cup
                 (IF lt(heap, vars[a], vars[b]) THEN {"lt"} ELSE {}) \cup
                 (IF gt(heap, vars[a], vars[b]) THEN {"gt"} ELSE {}), <<>>)
  /\ UNCHANGED <<heap, vars, cursor>>

\* for i in v.iter() { ... }: the loop starts, the cursor borrows v
CallIter(v) ==
  /\ Idle
  /\ vars[v] # NoHandle
  /\ cursor' = [root |-> v, node |-> iter(vars[v]), count |-> 0]
  /\ last' = Obs("iter", v, 0, 0, 0, {}, <<>>)
  /\ UNCHANGED <<heap, vars>>

\* one call of next by the running loop; None ends the loop and the borrow
CallNext ==
  /\ ~Idle
  /\ LET r == next(heap, cursor.node)
     IN /\ heap' = r.heap
        /\ IF r.some
           THEN /\ cursor' = [cursor EXCEPT !.node = r.cur, !.count = @ + 1]
                /\ last' = Obs("next", cursor.root, 0, r.item, 1, {"some"}, <<>>)
           ELSE /\ cursor' = NoCursor
                /\ last' = Obs("iter_end", cursor.root, 0, cursor.count, 1, {}, <<>>)
  /\ UNCHANGED vars

Next ==
  \/ \E d \in VarIds : CallNil(d)
  \/ \E x \in Values, s, d \in VarIds : CallCons(x, s, d)
  \/ \E s, d \in VarIds : CallClone(s, d)
  \/ \E v \in VarIds : CallDrop(v)
  \/ \E s, d \in VarIds : CallReverse(s, d)
  \/ \E s, d \in VarIds : CallReverseReverse(s, d)
  \/ \E it \in Inputs, d \in VarIds : CallFromIterator(it, d)
  \/ \E v \in VarIds : CallLen(v)
  \/ \E v \in VarIds : CallIsEmpty(v)
  \/ \E a, b \in VarIds : CallCompare(a, b)
  \/ \E v \in VarIds : CallIter(v)
  \/ CallNext

Spec == Init /\ [][Next]_vs

TypeOK ==
  /\ \A n \in NodeIds(heap) : heap[n].tag \in {"Nil", "Cons"}
  /\ \A i \in VarIds : vars[i] \in NodeIds(heap) \cup {NoHandle}

\* The programs that build their lists with collect() and reverse() only:
\* no two lists share a box.
AlgNext ==
  \/ \E it \in Inputs, d \in VarIds : CallFromIterator(it, d)
  \/ \E s, d \in VarIds : CallReverse(s, d)
  \/ \E s, d \in VarIds : CallReverseReverse(s, d)
  \/ \E v \in VarIds : CallLen(v)
  \/ \E v \in VarIds : CallIsEmpty(v)
  \/ \E a, b \in VarIds : CallCompare(a, b)
  \/ \E v \in VarIds : CallIter(v)
  \/ CallNext

AlgSpec == Init /\ [][AlgNext]_vs

\* A loop that has started keeps calling next until next returns None.
FairAlgSpec == AlgSpec /\ WF_vs(CallNext)

\* ---- vocabulary of the properties ---------------------------------------
Rev(s) == [i \in 1..Len(s) |-> s[Len(s) + 1 - i]]

\* s is before t in the lexicographic order of sequences of integers.
LexLess(s, t) ==
  \E k \in 0..Len(s) :
    /\ k <= Len(t)
    /\ \A i \in 1..k : s[i] = t[i]
    /\ \/ k = Len(s) /\ k < Len(t)
       \/ k < Len(s) /\ k < Len(t) /\ s[k + 1] < t[k + 1]

\* The Cons nodes between a node and the terminal Nil.
RECURSIVE PairCount(_, _)
PairCount(h, n) == IF h[n].tag = "Cons" THEN 1 + PairCount(h, h[n].rest) ELSE 0

\* The items a for loop over the list receives, in order.
RECURSIVE Yield(_, _)
Yield(h, cur) ==
  LET r == next(h, cur)
  IN IF r.some THEN <<r.item>> \o Yield(r.heap, r.cur) ELSE <<>>

\* The handles to a box: the caller's variables and the rest fields of the
\* live Cons nodes.
RefCount(h, v, n) ==
  Cardinality({i \in VarIds : v[i] = n}) +
  Cardinality({m \in NodeIds(h) : h[m].tag = "Cons" /\ h[m].rest = n})

SrcElems == Elems(heap, vars[last.src])
DstElems == Elems(heap, vars[last.dst])

\* C1: for every list L, L.reverse().reverse() == L by the derived,
\* structural equality.
C1_ReverseInvolution ==
  last.op = "reverse_reverse" =>
    /\ eq(heap, vars[last.dst], vars[last.src])
    /\ ~ne(heap, vars[last.dst], vars[last.src])

C1_Witness ==
  /\ last.op = "reverse_reverse"
  /\ Len(SrcElems) = 2
  /\ SrcElems[1] # SrcElems[2]
  /\ vars[last.dst] # vars[last.src]

\* C2: L.reverse() holds the elements of L in the opposite order: same
\* length, element i of the result is element n+1-i of L, and the reverse
\* of the empty list is the empty list.
C2_ReverseOrder ==
  last.op = "reverse" =>
    /\ DstElems = Rev(SrcElems)
    /\ Yield(heap, vars[last.dst]) = Rev(Yield(heap, vars[last.src]))
    /\ (is_empty(heap, vars[last.src]) => is_empty(heap, vars[last.dst]))

C2_Witness ==
  /\ last.op = "reverse"
  /\ Len(SrcElems) = 2
  /\ SrcElems[1] # SrcElems[2]

\* C3: iterating from_iterator(s) yields exactly s, first item first, and
\* from_iterator of the empty sequence is the empty list.
C3_FromSequenceOrder ==
  last.op = "from_iterator" =>
    /\ Yield(heap, vars[last.dst]) = last.it
    /\ (last.it = <<>> => is_empty(heap, vars[last.dst]))

C3_Witness ==
  /\ last.op = "from_iterator"
  /\ Len(last.it) = 2
  /\ last.it[1] # last.it[2]

\* C4: the derived order is the lexicographic strict total order on the
\* element sequences: a < b exactly when the sequence of a is
\* lexicographically before that of b, exactly one of a < b, a == b, a > b
\* holds, and < is transitive over all the lists of the heap (every box is
\* a list).
C4_LexOrder ==
  last.op = "compare" =>
       LET A == Elems(heap, vars[last.src])
           B == Elems(heap, vars[last.n])
           is(f) == IF f \in last.flags THEN 1 ELSE 0
       IN /\ ("lt" \in last.flags) <=> LexLess(A, B)
          /\ ("gt" \in last.flags) <=> LexLess(B, A)
          /\ is("lt") + is("eq") + is("gt") = 1
          /\ \A a, b, c \in NodeIds(heap) :
               lt(heap, a, b) /\ lt(heap, b, c) => lt(heap, a, c)

C4_Witness ==
  /\ last.op = "compare"
  /\ "lt" \in last.flags
  /\ Len(Elems(heap, vars[last.src])) >= 1
  /\ Len(Elems(heap, vars[last.n])) = 2
  /\ Elems(heap, vars[last.src])[1] = Elems(heap, vars[last.n])[1]

\* C5: two handles compare equal exactly when their element sequences are
\* the same, whether or not they point to the same nodes.
C5_StructuralEq ==
  last.op = "compare" =>
    LET A == Elems(heap, vars[last.src])
        B == Elems(heap, vars[last.n])
    IN /\ ("eq" \in last.flags) <=> (A = B)
       /\ ("ne" \in last.flags) <=> (A # B)
       /\ Len(A) # Len(B) => "eq" \notin last.flags

C5_Witness ==
  /\ last.op = "compare"
  /\ "eq" \in last.flags
  /\ Len(Elems(heap, vars[last.src])) = 2
  /\ vars[last.src] # vars[last.n]
  /\ heap[vars[last.src]].rest = heap[vars[last.n]].rest

\* The boxes a step releases: those reachable only through the dropped handle.
Gone ==
  IF last'.op = "drop"
  THEN NodeIds(heap) \ Reachable(heap, [vars EXCEPT ![last'.src] = NoHandle])
  ELSE {}
\* The name, after the step, of the box that was named n before it.
After(n) == IF n = NoHandle THEN NoHandle ELSE n - Cardinality({m \in Gone : m < n})
\* Variable i holds a handle that the step neither drops nor moves.
Kept(i) == vars[i] # NoHandle /\ ~(last'.op \in {"drop", "cons"} /\ last'.src = i)

\* C6: no call changes the tag, the value or the rest reference of a node
\* that is still reachable afterwards; every handle the call leaves with the
\* caller points to the same node and denotes the same element sequence; a
\* call of next moves only the cursor, and no other call moves the cursor.
C6_Step ==
  /\ \A n \in NodeIds(heap) \ Gone :
       /\ After(n) \in NodeIds(heap')
       /\ heap'[After(n)].tag = heap[n].tag
       /\ heap'[After(n)].val = heap[n].val
       /\ heap'[After(n)].rest = After(heap[n].rest)
  /\ \A i \in VarIds :
       Kept(i) => /\ vars'[i] = After(vars[i])
                  /\ Elems(heap', vars'[i]) = Elems(heap, vars[i])
  /\ (~Idle /\ last'.op \notin {"next", "iter_end"}) =>
       cursor' = [cursor EXCEPT !.node = After(@)]
  /\ last'.op \in {"next", "iter_end"} => (heap' = heap /\ vars' = vars)

C6_Immutable == [][C6_Step]_vs

C6_Witness ==
  /\ last.op = "next"
  /\ cursor.count = 2
  /\ \E i \in VarIds : i # cursor.root /\ vars[i] = heap[vars[cursor.root]].rest

\* C7 as the specification states it: prepend leaves the caller's tail handle
\* usable and raises the ownership count of the tail node by one.
C7_Original ==
  [][last'.op = "cons" =>
       LET t == vars[last'.src]
       IN /\ Len(heap') = Len(heap) + 1
          /\ heap'[vars'[last'.dst]].rest = t
          /\ heap'[t].rc = heap[t].rc + 1
          /\ vars'[last'.src] = t]_vs

\* C7 as the code has it: cons creates exactly one new node Cons(value, tail)
\* whose rest is the tail node, changes no existing node (nothing is copied
\* and the tail's ownership count stays as it was), and takes the caller's
\* handle: the variable passed no longer refers to the tail, while every other
\* handle of the caller, a clone of the tail included, is as before.
C7_ConsStep ==
  last'.op = "cons" =>
    LET t == vars[last'.src]
        n == vars'[last'.dst]
    IN /\ Len(heap') = Len(heap) + 1
       /\ n = Len(heap')
       /\ heap'[n] = [tag |-> "Cons", val |-> last'.n, rest |-> t, rc |-> 1]
       /\ \A m \in NodeIds(heap) : heap'[m] = heap[m]
       /\ vars'[last'.src] # t
       /\ last'.dst # last'.src => vars'[last'.src] = NoHandle
       /\ \A i \in VarIds \ {last'.src, last'.dst} :
            /\ vars'[i] = vars[i]
            /\ vars[i] # NoHandle => Elems(heap', vars'[i]) = Elems(heap, vars[i])

\* The clone the caller makes to keep the tail is what adds one owner.
C7_CloneStep ==
  last'.op = "clone" =>
    LET t == vars[last'.src]
    IN /\ vars'[last'.dst] = t
       /\ vars'[last'.src] = t
       /\ heap' = [heap EXCEPT ![t].rc = heap[t].rc + 1]

C7_ConsMoves == [][C7_ConsStep /\ C7_CloneStep]_vs

C7_Witness ==
  /\ last.op = "cons"
  /\ \E i \in VarIds \ {last.dst} :
       /\ vars[i] = heap[vars[last.dst]].rest
       /\ heap[vars[i]].rc = 2

\* C8: from_iterator, reverse and len/iteration never have more than one call
\* of their helper pending, whatever the length of the input.
C8_Iterative ==
  last.op \in {"from_iterator", "reverse", "len", "next", "iter_end"} =>
    last.depth <= 1

\* C9: len() is the number of Cons nodes up to the terminal Nil and the number
\* of items a loop over the list receives; is_empty() is true exactly when
\* that number is 0; a running loop has received as many items as there are
\* nodes behind its cursor; and every loop that starts ends.
C9_Counts ==
  /\ last.op = "len" =>
       /\ last.n = PairCount(heap, vars[last.src])
       /\ last.n = Len(Yield(heap, vars[last.src]))
  /\ last.op = "iter_end" =>
       /\ last.n = PairCount(heap, vars[last.src])
       /\ last.n = len(heap, vars[last.src]).n
  /\ last.op = "is_empty" =>
       (("true" \in last.flags) <=> (PairCount(heap, vars[last.src]) = 0))
  /\ ~Idle =>
       cursor.count + PairCount(heap, cursor.node) = PairCount(heap, vars[cursor.root])

C9_LengthCoherence == []C9_Counts /\ (~Idle ~> Idle)

C9_Witness ==
  /\ last.op = "iter_end"
  /\ last.n = 2

\* C10: the ownership count of every box is the number of handles to it (the
\* caller's variables and the rest fields of live Cons nodes); a box is in the
\* heap exactly while that number is positive, so every handle refers to a
\* live box and every live box is reachable from a variable of the caller.
C10_RefCounts ==
  /\ \A n \in NodeIds(heap) :
       /\ heap[n].tag \in {"Nil", "Cons"}
       /\ heap[n].rc = RefCount(heap, vars, n)
       /\ heap[n].rc >= 1
       /\ heap[n].tag = "Cons" => heap[n].rest \in NodeIds(heap)
       /\ n \in Reachable(heap, vars)
  /\ \A i \in VarIds : vars[i] \in NodeIds(heap) \cup {NoHandle}

C10_Witness ==
  /\ last.op = "drop"
  /\ last.n = 2
  /\ \E i \in VarIds : vars[i] # NoHandle /\ heap[vars[i]].rc = 1
                       /\ Len(Elems(heap, vars[i])) = 0
====
